---- MODULE Spec2Model ----
(***************************************************************************)
(* KiranaKhata: the ledger state of the shop (products, customers,         *)
(* transactions), its three update operations and its localStorage         *)
(* persistence, as written in src/pages/index.tsx (HomePage) and in the    *)
(* older App component of src/unnamed/part_000; and the khata view of      *)
(* src/views/Customers.tsx with its transaction form and its receipt scan  *)
(* (src/services/geminiService.ts).                                        *)
(***************************************************************************)
EXTENDS Integers, Sequences, FiniteSets, TLC

VARIABLES
    state,          \* useState<KiranaState>: the in-memory ledger state
    isLoaded,       \* useState(false): set by the load effect
    rendered,       \* the values of state and isLoaded the last committed render
                    \* read: what the views show and what the effects' closures hold
    loadPending,    \* the load effect (deps []) of the first commit has not run yet
    savePending,    \* the save effect (deps [state, isLoaded]) of the last commit
                    \* has not run yet
    crashed,        \* a render threw: the component tree is unmounted
    localStorage,   \* the text stored under the component's storage key
    now,            \* Date.now() at the last user event
    opsDone,        \* number of update operations invoked so far
    savedState,     \* history: the state the last localStorage.setItem serialised
    loaded,         \* history: the in-memory state the load of this launch produced
    events,         \* history: the update operations invoked since that load
    selectedCustomerId,     \* Customers: useState<string | null>(null)
    showTransactionModal,   \* Customers: useState(false)
    isScanning,             \* Customers: useState(false)
    txData,                 \* Customers: useState({type, amount, desc})
    scan,           \* the receipt scan in flight: the FileReader that is reading,
                    \* or the promise of its onloadend callback
    alerts,         \* number of alert() notices shown since the view was mounted
    activeTab,      \* HomePage: useState('dashboard')
    viewMode,       \* HomePage: useState('shopkeeper')
    detached        \* the scans in flight whose khata view has been unmounted:
                    \* how many are reading their file, how many await the extractor

\* The hooks of the khata view and what its scan has in flight.
view == <<selectedCustomerId, showTransactionModal, isScanning, txData, scan, alerts>>

\* The tab and the role HomePage shows, and the callbacks no view listens to.
nav == <<activeTab, viewMode, detached>>

vars == <<state, isLoaded, rendered, loadPending, savePending, crashed, localStorage,
          now, opsDone, savedState, loaded, events, view, nav>>

----------------------------------------------------------------------------
(* Bounds of the model.                                                    *)

\* The number of update operations a behaviour invokes.
MaxOps == 2

\* A scan is started only while no more scans than this are in flight for
\* views that have been unmounted.
MaxDetached == 1

----------------------------------------------------------------------------
(* JavaScript numbers: the integers, NaN and null. NaN and null are        *)
(* represented by two integers outside the range every amount and balance  *)
(* of the model stays in.                                                  *)

NaN == -999999

Null == -999998

IsNaN(x) == x = NaN

\* ToNumber: null converts to 0 in arithmetic.
ToNumber(x) == IF x = Null THEN 0 ELSE x

\* a + b on numbers.
Plus(a, b) ==
    IF IsNaN(ToNumber(a)) \/ IsNaN(ToNumber(b)) THEN NaN
    ELSE ToNumber(a) + ToNumber(b)

\* -a on numbers.
Negate(a) == IF IsNaN(ToNumber(a)) THEN NaN ELSE 0 - ToNumber(a)

\* Math.max(a, b): NaN if either argument is NaN.
MathMax(a, b) ==
    IF IsNaN(ToNumber(a)) \/ IsNaN(ToNumber(b)) THEN NaN
    ELSE IF ToNumber(a) >= ToNumber(b) THEN ToNumber(a) ELSE ToNumber(b)

----------------------------------------------------------------------------
(* The seed state.                                                         *)

\* INITIAL_STATE of HomePage; Date.now() is evaluated when the module loads.
INITIAL_STATE(t) ==
    [ products |-> <<
        [id |-> "1", name |-> "Basmati Rice 1kg", price |-> 120, category |-> "Grains"],
        [id |-> "2", name |-> "Tata Salt 1kg", price |-> 28, category |-> "Spices"],
        [id |-> "3", name |-> "Fortune Soyabean Oil 1L", price |-> 165, category |-> "Essentials"],
        [id |-> "4", name |-> "Aashirvaad Atta 5kg", price |-> 245, category |-> "Grains"],
        [id |-> "5", name |-> "Amul Butter 100g", price |-> 58, category |-> "Dairy"] >>,
      customers |-> <<
        [id |-> "c1", name |-> "Rahul Sharma", phone |-> "9876543210",
         outstandingBalance |-> 1250, lastUpdated |-> t],
        [id |-> "c2", name |-> "Priya Verma", phone |-> "9123456780",
         outstandingBalance |-> 0, lastUpdated |-> t],
        [id |-> "c3", name |-> "Amit Gupta", phone |-> "9988776655",
         outstandingBalance |-> 450, lastUpdated |-> t] >>,
      transactions |-> <<>> ]

\* INITIAL_STATE of the App component of part_000.
INITIAL_STATE_App(t) ==
    [ products |-> <<
        [id |-> "1", name |-> "Basmati Rice 1kg", price |-> 120, category |-> "Grains"],
        [id |-> "2", name |-> "Tata Salt 1kg", price |-> 25, category |-> "Spices"],
        [id |-> "3", name |-> "Fortune Oil 1L", price |-> 185, category |-> "Essentials"] >>,
      customers |-> <<
        [id |-> "c1", name |-> "Rahul Sharma", phone |-> "9876543210",
         outstandingBalance |-> 450, lastUpdated |-> t],
        [id |-> "c2", name |-> "Priya Verma", phone |-> "9123456780",
         outstandingBalance |-> 0, lastUpdated |-> t] >>,
      transactions |-> <<>> ]

\* A value has the KiranaState shape.
IsLedger(s) == DOMAIN s = {"products", "customers", "transactions"}

----------------------------------------------------------------------------
(* JSON.stringify and JSON.parse on the stored snapshot. A text is one of  *)
(* NoItem (getItem returns null), EmptyText (""), Garbage (text that is    *)
(* not JSON), ForeignJSON (JSON that is no KiranaState, "{}"), or the      *)
(* serialisation of a KiranaState: strings quoted, numbers written in      *)
(* decimal, NaN written as null.                                           *)

NoItem == [kind |-> "none"]

EmptyText == [kind |-> "empty"]

Garbage == [kind |-> "garbage"]

ForeignJSON == [kind |-> "foreign"]

\* The object JSON.parse returns for ForeignJSON: it has none of the fields.
ForeignValue == [notALedger |-> TRUE]

DigitChar == <<"0", "1", "2", "3", "4", "5", "6", "7", "8", "9">>

\* NatToText that writes the digits least significant first.
RECURSIVE NatToText_LittleEndian(_)
NatToText_LittleEndian(n) ==
    IF n < 10 THEN <<DigitChar[n + 1]>>
    ELSE <<DigitChar[(n % 10) + 1]>> \o NatToText_LittleEndian(n \div 10)

RECURSIVE NatToText(_)
NatToText(n) ==
    IF n < 10 THEN <<DigitChar[n + 1]>>
    ELSE Append(NatToText(n \div 10), DigitChar[(n % 10) + 1])

\* JSON.stringify of a number: NaN (and null) serialise as null.
NumberToText(n) ==
    IF n = NaN \/ n = Null THEN <<"n", "u", "l", "l">>
    ELSE IF n < 0 THEN <<"-">> \o NatToText(0 - n)
    ELSE NatToText(n)

DigitValue(c) == CHOOSE d \in 0..9 : DigitChar[d + 1] = c

RECURSIVE TextToNat(_)
TextToNat(t) ==
    IF Len(t) = 0 THEN 0
    ELSE TextToNat(SubSeq(t, 1, Len(t) - 1)) * 10 + DigitValue(t[Len(t)])

\* JSON.parse of a number token or of null.
TextToNumber(t) ==
    IF t = <<"n", "u", "l", "l">> THEN Null
    ELSE IF Head(t) = "-" THEN 0 - TextToNat(Tail(t))
    ELSE TextToNat(t)

QuoteString(s) == [str |-> s]

UnquoteString(q) == q.str

JSONstringify(s) ==
    [ kind |-> "ledger",
      products |-> [i \in DOMAIN s.products |->
          [id |-> QuoteString(s.products[i].id),
           name |-> QuoteString(s.products[i].name),
           price |-> NumberToText(s.products[i].price),
           category |-> QuoteString(s.products[i].category)]],
      customers |-> [i \in DOMAIN s.customers |->
          [id |-> QuoteString(s.customers[i].id),
           name |-> QuoteString(s.customers[i].name),
           phone |-> QuoteString(s.customers[i].phone),
           outstandingBalance |-> NumberToText(s.customers[i].outstandingBalance),
           lastUpdated |-> NumberToText(s.customers[i].lastUpdated)]],
      transactions |-> [i \in DOMAIN s.transactions |->
          [id |-> QuoteString(s.transactions[i].id),
           customerId |-> QuoteString(s.transactions[i].customerId),
           type |-> QuoteString(s.transactions[i].type),
           amount |-> NumberToText(s.transactions[i].amount),
           description |-> QuoteString(s.transactions[i].description),
           timestamp |-> NumberToText(s.transactions[i].timestamp)]] ]

\* JSON.parse: [ok |-> FALSE] stands for the SyntaxError it throws.
JSONparse(text) ==
    IF text.kind = "garbage" \/ text.kind = "empty" THEN [ok |-> FALSE]
    ELSE IF text.kind = "foreign" THEN [ok |-> TRUE, value |-> ForeignValue]
    ELSE [ ok |-> TRUE,
           value |->
             [ products |-> [i \in DOMAIN text.products |->
                 [id |-> UnquoteString(text.products[i].id),
                  name |-> UnquoteString(text.products[i].name),
                  price |-> TextToNumber(text.products[i].price),
                  category |-> UnquoteString(text.products[i].category)]],
               customers |-> [i \in DOMAIN text.customers |->
                 [id |-> UnquoteString(text.customers[i].id),
                  name |-> UnquoteString(text.customers[i].name),
                  phone |-> UnquoteString(text.customers[i].phone),
                  outstandingBalance |-> TextToNumber(text.customers[i].outstandingBalance),
                  lastUpdated |-> TextToNumber(text.customers[i].lastUpdated)]],
               transactions |-> [i \in DOMAIN text.transactions |->
                 [id |-> UnquoteString(text.transactions[i].id),
                  customerId |-> UnquoteString(text.transactions[i].customerId),
                  type |-> UnquoteString(text.transactions[i].type),
                  amount |-> TextToNumber(text.transactions[i].amount),
                  description |-> UnquoteString(text.transactions[i].description),
                  timestamp |-> TextToNumber(text.transactions[i].timestamp)]] ] ]

\* `if (saved)`: null and "" are falsy.
Truthy(text) == text.kind # "none" /\ text.kind # "empty"

----------------------------------------------------------------------------
(* Inputs of the operations.                                               *)

\* Results of Math.random().toString(36).substr(2, 9).
GenIds == {"g1", "g2"}

TransactionTypes == {"PURCHASE", "PAYMENT"}

\* The amounts that are numbers, and every amount parseFloat can produce.
NumericAmounts == {0 - 100, 0, 500}

AnyAmounts == NumericAmounts \cup {NaN}

\* The customer ids a transaction is recorded against: a seed customer and
\* an id that belongs to no customer until addCustomer draws it.
TxCustomerIds == {"c3", "g1"}

TxInputs(amounts) ==
    [customerId : TxCustomerIds, type : TransactionTypes, amount : amounts,
     description : {"Rice"}]

CustomerInputs == [name : {"Sita Devi"}, phone : {"9000000001"}]

ProductInputs == [name : {"Toor Dal 1kg"}, price : {140}, category : {"Grains"}]

----------------------------------------------------------------------------
(* The khata view (src/views/Customers.tsx) and the receipt extractor      *)
(* (src/services/geminiService.ts). The text of the amount field is the    *)
(* sequence of its characters; a description is a sequence of pieces.      *)

\* selectedCustomerId before a customer is clicked: null.
NoCustomer == "null"

\* useState({ type: 'PURCHASE', amount: '', desc: '' })
BlankTxData == [type |-> "PURCHASE", amount |-> <<>>, desc |-> <<>>]

\* No scan is in flight.
NoScan == [phase |-> "idle", response |-> "none"]

\* total.toString()
NumberToString(n) ==
    IF IsNaN(n) THEN <<"N", "a", "N">>
    ELSE IF n < 0 THEN <<"-">> \o NatToText(0 - n)
    ELSE NatToText(n)

IsDigits(t) ==
    Len(t) > 0 /\ \A i \in DOMAIN t : \E d \in DOMAIN DigitChar : DigitChar[d] = t[i]

\* parseFloat(txData.amount), on texts that are a decimal integer as a whole
\* or hold no number at all.
parseFloat(t) ==
    IF IsDigits(t) THEN TextToNat(t)
    ELSE IF Len(t) > 1 /\ Head(t) = "-" /\ IsDigits(Tail(t)) THEN 0 - TextToNat(Tail(t))
    ELSE NaN

\* The item lists a JSON response of the model holds.
ScannedLists ==
    { <<>>, <<[name |-> "Rice", price |-> 300], [name |-> "Dal", price |-> 200]>> }

\* What ai.models.generateContent does: it rejects (network or API error),
\* or resolves with a response whose text is empty, is no JSON, or is the
\* JSON of an item list.
Responses ==
    { [kind |-> k, items |-> <<>>] : k \in {"rejected", "noText", "badJSON"} }
    \cup { [kind |-> "json", items |-> l] : l \in ScannedLists }

\* extractItemsFromImage that swallows every error and returns [].
extractItemsFromImage_Swallows(response) ==
    IF response.kind = "json" THEN [threw |-> FALSE, items |-> response.items]
    ELSE [threw |-> FALSE, items |-> <<>>]

\* try { const response = await ...; const text = response.text;
\*       if (!text) return []; return JSON.parse(text) }
\* catch (error) { console.error(...); throw error }
extractItemsFromImage(response) ==
    IF response.kind = "rejected" THEN [threw |-> TRUE, items |-> <<>>]
    ELSE IF response.kind = "noText" THEN [threw |-> FALSE, items |-> <<>>]
    ELSE IF response.kind = "badJSON" THEN [threw |-> TRUE, items |-> <<>>]
    ELSE [threw |-> FALSE, items |-> response.items]

\* A reduce that drops its accumulator: the price of the last item.
ScanTotal_LastPrice(items) ==
    IF Len(items) = 0 THEN 0 ELSE items[Len(items)].price

\* items.reduce((acc, curr) => acc + curr.price, 0)
RECURSIVE ScanTotal(_)
ScanTotal(items) ==
    IF Len(items) = 0 THEN 0
    ELSE Plus(ScanTotal(SubSeq(items, 1, Len(items) - 1)), items[Len(items)].price)

\* `${i.name} (Rs${i.price})`, with Rs for the rupee sign.
ItemText(i) == <<i.name, " (Rs">> \o NumberToString(i.price) \o <<")">>

\* items.map(...).join(', ')
RECURSIVE JoinedItems(_)
JoinedItems(items) ==
    IF Len(items) = 0 THEN <<>>
    ELSE IF Len(items) = 1 THEN ItemText(items[1])
    ELSE ItemText(Head(items)) \o <<", ">> \o JoinedItems(Tail(items))

\* setTxData({ type: 'PURCHASE', amount: total.toString(), desc: `AI Scanned: ${desc}` })
ScanDraft(items) ==
    [type |-> "PURCHASE", amount |-> NumberToString(ScanTotal(items)),
     desc |-> <<"AI Scanned: ">> \o JoinedItems(items)]

\* The browser's check of the amount field before it delivers the submit
\* event: the field is required and of type number, a value React set on
\* it that is no number reads as empty.
AmountFieldValid(text) == ~IsNaN(parseFloat(text))

\* A guard that does not look at the amount.
TxSubmitAccepted_IgnoresAmount(selected, data) == selected # NoCustomer

\* if (!selectedCustomerId || !txData.amount) return
TxSubmitAccepted(selected, data) == selected # NoCustomer /\ Len(data.amount) > 0

\* SubmittedTx that names no customer.
SubmittedTx_ForNobody(selected, data) ==
    [customerId |-> NoCustomer, type |-> data.type, amount |-> parseFloat(data.amount),
     description |-> data.desc]

\* The argument handleTxSubmit passes to onAddTransaction.
SubmittedTx(selected, data) ==
    [customerId |-> selected, type |-> data.type, amount |-> parseFloat(data.amount),
     description |->
        IF Len(data.desc) > 0 THEN data.desc
        ELSE IF data.type = "PURCHASE" THEN <<"New Purchase">>
        ELSE <<"Payment Received">>]

\* What the user makes of the amount field and of the description: an
\* amount is typed, the description is cleared.
AmountTexts == {NumberToString(500)}

DescTexts == {<<>>}

\* The ids Math.random gives to a transaction of the form and to a
\* customer added from the khata view.
FormIds == {"g2"}

ViewCustomerIds == {"g1"}

----------------------------------------------------------------------------
(* The update operations.                                                  *)

\* The views are on screen and idle: the last committed render had isLoaded
\* true, it shows the current state and its effects have run. (A root made
\* with createRoot renders a click's update and flushes its effects before
\* the next event is handled.)
Idle == rendered.state = state /\ ~savePending

Displayed == ~crashed /\ rendered.isLoaded /\ Idle

\* if (viewMode === 'customer' && activeTab !== 'customers'): the tab effect
\* of the last commit has work to do.
TabEffectDue == viewMode = "customer" /\ activeTab # "customers"

\* {activeTab === 'customers' && (<Customers ... />)}: the khata view is on
\* screen.
KhataShown == Displayed /\ activeTab = "customers"

\* isShopkeeper={viewMode === 'shopkeeper'}
isShopkeeper == viewMode = "shopkeeper"

\* Adjustment that ignores the type (a PAYMENT adds to the balance).
Adjustment_IgnoresType(tx) == tx.amount

\* const adjustment = tx.type === 'PURCHASE' ? tx.amount : -tx.amount
Adjustment(tx) == IF tx.type = "PURCHASE" THEN tx.amount ELSE Negate(tx.amount)

\* NewBalance without the clamp at zero.
NewBalance_NoClamp(balance, tx) == Plus(balance, Adjustment(tx))

\* NewBalance that clamps the old balance instead of the new one.
NewBalance_ClampsOldBalance(balance, tx) ==
    Plus(MathMax(0, balance), Adjustment(tx))

\* Math.max(0, c.outstandingBalance + adjustment)
NewBalance(balance, tx) == MathMax(0, Plus(balance, Adjustment(tx)))

\* UpdatedCustomers that stamps lastUpdated on every customer.
UpdatedCustomers_StampsAll(customers, tx, t) ==
    [i \in DOMAIN customers |->
        IF customers[i].id = tx.customerId
        THEN [customers[i] EXCEPT
                !.outstandingBalance = NewBalance(customers[i].outstandingBalance, tx),
                !.lastUpdated = t]
        ELSE [customers[i] EXCEPT !.lastUpdated = t]]

\* UpdatedCustomers that also blanks the name of the customer it updates.
UpdatedCustomers_Renames(customers, tx, t) ==
    [i \in DOMAIN customers |->
        IF customers[i].id = tx.customerId
        THEN [customers[i] EXCEPT
                !.name = "",
                !.outstandingBalance = NewBalance(customers[i].outstandingBalance, tx),
                !.lastUpdated = t]
        ELSE customers[i]]

\* UpdatedCustomers that moves the customers it updates to the front.
UpdatedCustomers_MovesFirst(customers, tx, t) ==
    [i \in DOMAIN SelectSeq(customers, LAMBDA c : c.id = tx.customerId) |->
        [SelectSeq(customers, LAMBDA c : c.id = tx.customerId)[i] EXCEPT
            !.outstandingBalance = NewBalance(@, tx),
            !.lastUpdated = t]]
      \o SelectSeq(customers, LAMBDA c : c.id # tx.customerId)

\* prev.customers.map(c => c.id === tx.customerId ? {...} : c)
UpdatedCustomers(customers, tx, t) ==
    [i \in DOMAIN customers |->
        IF customers[i].id = tx.customerId
        THEN [customers[i] EXCEPT
                !.outstandingBalance = NewBalance(customers[i].outstandingBalance, tx),
                !.lastUpdated = t]
        ELSE customers[i]]

\* const newTx = { ...tx, id: ..., timestamp: Date.now() }
NewTx(tx, id, t) ==
    [id |-> id, customerId |-> tx.customerId, type |-> tx.type, amount |-> tx.amount,
     description |-> tx.description, timestamp |-> t]

\* WithTransaction that appends instead of prepending.
WithTransaction_Appends(transactions, newTx) == Append(transactions, newTx)

\* WithTransaction that keeps the new transaction only.
WithTransaction_KeepsNewOnly(transactions, newTx) == <<newTx>>

\* transactions: [newTx, ...prev.transactions]
WithTransaction(transactions, newTx) == <<newTx>> \o transactions

\* NewCustomer that leaves lastUpdated unset.
NewCustomer_NoTimestamp(customer, id, t) ==
    [id |-> id, name |-> customer.name, phone |-> customer.phone,
     outstandingBalance |-> 0, lastUpdated |-> 0]

\* const newCustomer = { ...customer, id: ..., outstandingBalance: 0, lastUpdated: Date.now() }
NewCustomer(customer, id, t) ==
    [id |-> id, name |-> customer.name, phone |-> customer.phone,
     outstandingBalance |-> 0, lastUpdated |-> t]

\* const newProduct = { ...product, id: ... }
NewProduct(product, id) ==
    [id |-> id, name |-> product.name, price |-> product.price,
     category |-> product.category]

\* Every operation is a user event: time has passed since the previous one,
\* and the operation's setState schedules a render.
UserEvent(call) ==
    /\ Displayed
    /\ opsDone < MaxOps
    /\ opsDone' = opsDone + 1
    /\ now' = now + 1
    /\ events' = Append(events, call)
    /\ UNCHANGED <<isLoaded, rendered, loadPending, savePending, crashed,
                   localStorage, savedState, loaded, nav>>

\* addProduct that puts the new product first.
addProduct_Prepends(product, id) ==
    /\ UserEvent([op |-> "addProduct", arg |-> product, id |-> id, at |-> now + 1])
    /\ state' = [state EXCEPT !.products = <<NewProduct(product, id)>> \o @]

addProduct(product, id) ==
    /\ UserEvent([op |-> "addProduct", arg |-> product, id |-> id, at |-> now + 1])
    /\ state' = [state EXCEPT !.products = Append(@, NewProduct(product, id))]

addCustomer(customer, id) ==
    /\ UserEvent([op |-> "addCustomer", arg |-> customer, id |-> id, at |-> now + 1])
    /\ state' = [state EXCEPT
                    !.customers = Append(@, NewCustomer(customer, id, now + 1))]

\* recordTransaction that sets the transaction list only.
recordTransaction_TransactionsOnly(tx, id) ==
    /\ UserEvent([op |-> "recordTransaction", arg |-> tx, id |-> id, at |-> now + 1])
    /\ state' = [state EXCEPT
                    !.transactions = WithTransaction(@, NewTx(tx, id, now + 1))]

recordTransaction(tx, id) ==
    /\ UserEvent([op |-> "recordTransaction", arg |-> tx, id |-> id, at |-> now + 1])
    /\ state' = [state EXCEPT
                    !.transactions = WithTransaction(@, NewTx(tx, id, now + 1)),
                    !.customers = UpdatedCustomers(@, tx, now + 1)]

\* The updater a call hands to setState, applied to the state s: the state a
\* call of the history makes of s.
ApplyCall(s, e) ==
    CASE e.op = "addProduct" ->
            [s EXCEPT !.products = Append(@, NewProduct(e.arg, e.id))]
      [] e.op = "addCustomer" ->
            [s EXCEPT !.customers = Append(@, NewCustomer(e.arg, e.id, e.at))]
      [] e.op = "recordTransaction" ->
            [s EXCEPT !.transactions = WithTransaction(@, NewTx(e.arg, e.id, e.at)),
                      !.customers = UpdatedCustomers(@, e.arg, e.at)]

\* The state of the render whose closure issued the call.
PrevState_Rendered == rendered.state

\* setState(prev => ...): React hands an updater the state the updaters
\* queued before it have produced.
PrevState == state

\* A call of one of the three operations by a caller that holds the
\* callbacks of the last render, whether or not the calls before it have
\* been rendered. Date.now() may return the same millisecond twice.
IssueCall(op, arg, id, t) ==
    /\ ~crashed /\ rendered.isLoaded /\ ~loadPending
    /\ opsDone < MaxOps
    /\ opsDone' = opsDone + 1
    /\ now' = t
    /\ events' = Append(events, [op |-> op, arg |-> arg, id |-> id, at |-> t])
    /\ state' = ApplyCall(PrevState, [op |-> op, arg |-> arg, id |-> id, at |-> t])
    /\ UNCHANGED <<isLoaded, rendered, loadPending, savePending, crashed,
                   localStorage, savedState, loaded, nav>>

----------------------------------------------------------------------------
(* Rendering and the effects of HomePage.                                  *)

\* A render of HomePage with the current hook values. Effects that are
\* pending are flushed before the next render. With isLoaded true the
\* dashboard reads state.customers and state.transactions: a state that is
\* no KiranaState throws and the tree is unmounted.
Render ==
    /\ ~crashed /\ ~loadPending /\ ~savePending
    /\ rendered # [state |-> state, isLoaded |-> isLoaded]
    /\ IF isLoaded /\ ~IsLedger(state)
       THEN crashed' = TRUE /\ UNCHANGED <<rendered, savePending>>
       ELSE /\ rendered' = [state |-> state, isLoaded |-> isLoaded]
            /\ savePending' = TRUE
            /\ UNCHANGED crashed
    /\ UNCHANGED <<state, isLoaded, loadPending, localStorage, now, opsDone,
                   savedState, loaded, events, view, nav>>

\* The state the load effect sets: JSON.parse(saved) when saved is truthy
\* and parses, else the state is left as it is.
LoadedState(saved, current) ==
    IF Truthy(saved) /\ JSONparse(saved).ok THEN JSONparse(saved).value ELSE current

\* useEffect(() => { const saved = localStorage.getItem(...); ... }, [])
LoadEffect ==
    /\ ~crashed /\ loadPending
    /\ state' = LoadedState(localStorage, state)
    /\ isLoaded' = TRUE
    /\ loadPending' = FALSE
    /\ loaded' = state'
    /\ events' = <<>>
    /\ UNCHANGED <<rendered, savePending, crashed, localStorage, now, opsDone,
                   savedState, view, nav>>

\* SavedText of a save effect that never writes.
SavedText_NeverWrites(r, stored) == stored

\* SavedText of a save effect that does not look at isLoaded.
SavedText_Always(r, stored) == JSONstringify(r.state)

\* What the save effect leaves in the store.
SavedText(r, stored) == IF r.isLoaded THEN JSONstringify(r.state) ELSE stored

\* useEffect(() => { if (isLoaded) localStorage.setItem(...) }, [state, isLoaded])
\* It runs after the load effect of the same commit, with the values of
\* the render that scheduled it.
SaveEffect ==
    /\ ~crashed /\ ~loadPending /\ savePending
    /\ localStorage' = SavedText(rendered, localStorage)
    /\ savedState' = IF rendered.isLoaded THEN rendered.state ELSE savedState
    /\ savePending' = FALSE
    /\ UNCHANGED <<state, isLoaded, rendered, loadPending, crashed, now, opsDone,
                   loaded, events, view, nav>>

\* The khata view is mounted: every hook takes its initial value.
MountView ==
    /\ selectedCustomerId' = NoCustomer
    /\ showTransactionModal' = FALSE
    /\ isScanning' = FALSE
    /\ txData' = BlankTxData
    /\ scan' = NoScan
    /\ alerts' = 0

\* No callback of an unmounted view is in flight.
NoneDetached == [reading |-> 0, extracting |-> 0]

\* The user reloads the page (or closes and reopens it), at any moment: the
\* component is mounted anew and only localStorage survives. The module is
\* evaluated again, so the seed's Date.now() is the time of the reload. The
\* khata view is mounted anew as well, and the callbacks of a scan that was
\* in flight are gone with the page.
Reload ==
    /\ state' = INITIAL_STATE(now)
    /\ isLoaded' = FALSE
    /\ rendered' = [state |-> INITIAL_STATE(now), isLoaded |-> FALSE]
    /\ loadPending' = TRUE
    /\ savePending' = TRUE
    /\ crashed' = FALSE
    /\ loaded' = INITIAL_STATE(now)
    /\ events' = <<>>
    /\ MountView
    /\ activeTab' = "dashboard"
    /\ viewMode' = "shopkeeper"
    /\ detached' = NoneDetached
    /\ UNCHANGED <<localStorage, now, opsDone, savedState>>

\* The hooks of the khata view when it is mounted.
MountedView ==
    /\ selectedCustomerId = NoCustomer
    /\ showTransactionModal = FALSE
    /\ isScanning = FALSE
    /\ txData = BlankTxData
    /\ scan = NoScan
    /\ alerts = 0

\* The hooks of HomePage for the tab and the role when it is mounted.
MountedNav ==
    /\ activeTab = "dashboard"
    /\ viewMode = "shopkeeper"
    /\ detached = NoneDetached

Init ==
    /\ state = INITIAL_STATE(0)
    /\ isLoaded = FALSE
    /\ rendered = [state |-> INITIAL_STATE(0), isLoaded |-> FALSE]
    /\ loadPending = TRUE
    /\ savePending = TRUE
    /\ crashed = FALSE
    /\ localStorage \in {NoItem, EmptyText, Garbage, ForeignJSON}
    /\ now = 0
    /\ opsDone = 0
    /\ savedState = ForeignValue
    /\ loaded = INITIAL_STATE(0)
    /\ events = <<>>
    /\ MountedView
    /\ MountedNav

\* The operations invoked with the hooks of the khata view left alone.
AddProductStep ==
    \E p \in ProductInputs, id \in GenIds : addProduct(p, id) /\ UNCHANGED view

AddCustomerStep ==
    \E c \in CustomerInputs, id \in GenIds : addCustomer(c, id) /\ UNCHANGED view

RecordTransactionStep(amounts) ==
    \E tx \in TxInputs(amounts), id \in GenIds :
        recordTransaction(tx, id) /\ UNCHANGED view

\* HomePage when every amount passed to recordTransaction is a number.
Next ==
    \/ LoadEffect
    \/ SaveEffect
    \/ Render
    \/ AddProductStep
    \/ AddCustomerStep
    \/ RecordTransactionStep(NumericAmounts)
    \/ Reload

Spec == Init /\ [][Next]_vars

\* The calls a caller may issue back to back.
BatchCalls ==
    ({"addProduct"} \X ProductInputs) \cup ({"addCustomer"} \X CustomerInputs)
        \cup ({"recordTransaction"} \X TxInputs({500}))

IssueCallStep ==
    \E c \in BatchCalls, id \in GenIds, t \in {now, now + 1} :
        IssueCall(c[1], c[2], id, t) /\ UNCHANGED view

\* HomePage when calls are issued without waiting for the render of the
\* call before.
NextBatch ==
    \/ LoadEffect
    \/ SaveEffect
    \/ Render
    \/ IssueCallStep

SpecBatch == Init /\ [][NextBatch]_vars

\* HomePage when the amount may also be NaN.
NextNaN ==
    \/ LoadEffect
    \/ SaveEffect
    \/ Render
    \/ AddProductStep
    \/ AddCustomerStep
    \/ RecordTransactionStep(AnyAmounts)
    \/ Reload

SpecNaN == Init /\ [][NextNaN]_vars

----------------------------------------------------------------------------
(* The handlers of the khata view as the shopkeeper sees it. A handler     *)
(* runs when the views are on screen and idle; the setState calls of one   *)
(* handler are rendered together.                                          *)

\* The hooks of HomePage, the store and the history.
home == <<isLoaded, rendered, loadPending, savePending, crashed, localStorage,
          now, opsDone, savedState, loaded, events, nav>>

\* const selectedCustomer = customers.find(c => c.id === selectedCustomerId):
\* the scan and transaction buttons are rendered when it is found.
SelectedCustomerListed ==
    \E i \in DOMAIN state.customers : state.customers[i].id = selectedCustomerId

\* The rows of the customer list the user clicks: one row per customer,
\* of which the model clicks those of TxCustomerIds.
ClickableIds(customers) ==
    {customers[i].id : i \in DOMAIN customers} \cap TxCustomerIds

\* onClick={() => setSelectedCustomerId(c.id)}
selectCustomer(id) ==
    /\ KhataShown
    /\ selectedCustomerId' = id
    /\ UNCHANGED <<state, home, showTransactionModal, isScanning, txData, scan, alerts>>

\* onClick={() => { setTxData({ ...txData, type }); setShowTransactionModal(true); }}
openTransactionModal(type) ==
    /\ KhataShown /\ isShopkeeper /\ SelectedCustomerListed
    /\ txData' = [txData EXCEPT !.type = type]
    /\ showTransactionModal' = TRUE
    /\ UNCHANGED <<state, home, selectedCustomerId, isScanning, scan, alerts>>

\* onClick={() => setShowTransactionModal(false)}
closeTransactionModal ==
    /\ KhataShown /\ showTransactionModal
    /\ showTransactionModal' = FALSE
    /\ UNCHANGED <<state, home, selectedCustomerId, isScanning, txData, scan, alerts>>

\* onChange={e => setTxData({...txData, amount: e.target.value})}
changeAmount(text) ==
    /\ KhataShown /\ showTransactionModal
    /\ txData' = [txData EXCEPT !.amount = text]
    /\ UNCHANGED <<state, home, selectedCustomerId, showTransactionModal, isScanning,
                   scan, alerts>>

\* onChange={e => setTxData({...txData, desc: e.target.value})}
changeDesc(text) ==
    /\ KhataShown /\ showTransactionModal
    /\ txData' = [txData EXCEPT !.desc = text]
    /\ UNCHANGED <<state, home, selectedCustomerId, showTransactionModal, isScanning,
                   scan, alerts>>

\* The form of the modal is submitted: the browser delivers the event when
\* the amount field is valid, and handleTxSubmit records the transaction,
\* clears the form and closes the modal unless its guard returns early.
handleTxSubmit(id) ==
    /\ KhataShown /\ showTransactionModal
    /\ AmountFieldValid(txData.amount)
    /\ TxSubmitAccepted(selectedCustomerId, txData)
    /\ recordTransaction(SubmittedTx(selectedCustomerId, txData), id)
    /\ txData' = BlankTxData
    /\ showTransactionModal' = FALSE
    /\ UNCHANGED <<selectedCustomerId, isScanning, scan, alerts>>

\* handleTxSubmit on a submit event that reaches it whatever the amount field
\* holds (an event a script dispatches, a browser that does not validate
\* forms): e.preventDefault(), the early return, else onAddTransaction, the
\* reset of the draft and the closing of the modal.
handleTxSubmitEvent(id) ==
    /\ KhataShown /\ showTransactionModal
    /\ IF TxSubmitAccepted(selectedCustomerId, txData)
       THEN /\ recordTransaction(SubmittedTx(selectedCustomerId, txData), id)
            /\ txData' = BlankTxData
            /\ showTransactionModal' = FALSE
            /\ UNCHANGED <<selectedCustomerId, isScanning, scan, alerts>>
       ELSE UNCHANGED vars

\* handleScanList behind a scan button that is never disabled.
handleScanList_NeverDisabled ==
    /\ KhataShown /\ isShopkeeper /\ SelectedCustomerListed
    /\ detached.reading + detached.extracting <= MaxDetached
    /\ isScanning' = TRUE
    /\ scan' = [phase |-> "reading", response |-> "none"]
    /\ UNCHANGED <<state, home, selectedCustomerId, showTransactionModal, txData, alerts>>

\* A file is chosen with the scan button, which is rendered for the
\* shopkeeper and disabled while isScanning: setIsScanning(true) and
\* reader.readAsDataURL(file). Nothing in the try block throws
\* synchronously, so its catch (the only place that calls alert) is not
\* entered. (A scan is started while at most MaxDetached scans of unmounted
\* views are in flight.)
handleScanList ==
    /\ KhataShown /\ isShopkeeper /\ SelectedCustomerListed
    /\ ~isScanning
    /\ detached.reading + detached.extracting <= MaxDetached
    /\ isScanning' = TRUE
    /\ scan' = [phase |-> "reading", response |-> "none"]
    /\ UNCHANGED <<state, home, selectedCustomerId, showTransactionModal, txData, alerts>>

\* reader.onloadend up to its await: reader.result is a data URL, or null
\* when the read failed; null.split throws inside the async callback and
\* its promise is rejected with nobody to handle it.
onloadend(readOk) ==
    /\ KhataShown
    /\ scan.phase = "reading"
    /\ scan' = IF readOk THEN [phase |-> "extracting", response |-> "none"]
               ELSE [phase |-> "rejected", response |-> "readError"]
    /\ UNCHANGED <<state, home, selectedCustomerId, showTransactionModal, isScanning,
                   txData, alerts>>

\* resumeScan that records the draft as a transaction by itself.
resumeScan_Records(response) ==
    /\ KhataShown
    /\ scan.phase = "extracting"
    /\ LET r == extractItemsFromImage(response) IN
         IF r.threw
         THEN /\ scan' = [phase |-> "rejected", response |-> response.kind]
              /\ UNCHANGED <<state, home, txData, isScanning, showTransactionModal>>
         ELSE /\ recordTransaction(
                    SubmittedTx(selectedCustomerId, ScanDraft(r.items)), "g2")
              /\ txData' = ScanDraft(r.items)
              /\ isScanning' = FALSE
              /\ showTransactionModal' = TRUE
              /\ scan' = NoScan
    /\ UNCHANGED <<selectedCustomerId, alerts>>

\* The request of extractItemsFromImage settles and onloadend goes on after
\* its await: with the items it fills the draft, clears isScanning and
\* opens the modal; an exception of the extractor rejects the callback's
\* promise and none of the three is done.
resumeScan(response) ==
    /\ KhataShown
    /\ scan.phase = "extracting"
    /\ LET r == extractItemsFromImage(response) IN
         IF r.threw
         THEN /\ scan' = [phase |-> "rejected", response |-> response.kind]
              /\ UNCHANGED <<txData, isScanning, showTransactionModal>>
         ELSE /\ txData' = ScanDraft(r.items)
              /\ isScanning' = FALSE
              /\ showTransactionModal' = TRUE
              /\ scan' = NoScan
    /\ UNCHANGED <<state, home, selectedCustomerId, alerts>>

\* handleAddCustSubmit with both fields filled: onAddCustomer(newCust). The
\* button that opens its modal is rendered for the shopkeeper.
AddCustomerViewStep ==
    \E c \in CustomerInputs, id \in ViewCustomerIds :
        KhataShown /\ isShopkeeper /\ addCustomer(c, id) /\ UNCHANGED view

SelectCustomerStep ==
    KhataShown /\ \E id \in ClickableIds(state.customers) : selectCustomer(id)

OpenTransactionModalStep == \E type \in TransactionTypes : openTransactionModal(type)

ChangeAmountStep == \E text \in AmountTexts : changeAmount(text)

ChangeDescStep == \E text \in DescTexts : changeDesc(text)

TxSubmitStep == \E id \in FormIds : handleTxSubmit(id)

FileReadEnds == \E readOk \in {TRUE} : onloadend(readOk)

ExtractionSettles == \E response \in Responses : resumeScan(response)

----------------------------------------------------------------------------
(* The tabs and the role switch of Layout, and the tab effect of HomePage. *)

\* The hooks of HomePage for the ledger, the store and the history.
page == <<state, isLoaded, rendered, loadPending, savePending, crashed, localStorage,
          now, opsDone, savedState, loaded, events>>

\* The views HomePage renders for a tab and a role.
ShownViews_IgnoresRole(tab, mode) == {tab}

\* {activeTab === 'dashboard' && viewMode === 'shopkeeper' && ...}
\* {activeTab === 'inventory' && viewMode === 'shopkeeper' && ...}
\* {activeTab === 'customers' && ...}
ShownViews(tab, mode) ==
    IF tab = "customers" THEN {"customers"}
    ELSE IF mode = "shopkeeper" THEN {tab}
    ELSE {}

\* The callbacks in flight once the view that holds the scan s is unmounted.
DetachedWith(d, s) ==
    [reading |-> d.reading + (IF s.phase = "reading" THEN 1 ELSE 0),
     extracting |-> d.extracting + (IF s.phase = "extracting" THEN 1 ELSE 0)]

\* onClick={() => setActiveTab(tab)} of the sidebar and of the mobile bar
\* (which shows the three tabs to both roles). The open transaction modal
\* covers both. Leaving the customers tab unmounts the khata view: its
\* hooks are gone, the callbacks of its scan stay in flight.
setActiveTab(tab) ==
    /\ Displayed /\ ~TabEffectDue /\ ~showTransactionModal
    /\ activeTab' = tab
    /\ IF "customers" \in ShownViews(activeTab, viewMode)
          /\ "customers" \notin ShownViews(tab, viewMode)
       THEN MountView /\ detached' = DetachedWith(detached, scan)
       ELSE UNCHANGED <<view, detached>>
    /\ UNCHANGED <<page, viewMode>>

\* onClick={() => setViewMode(mode)}
setViewMode(mode) ==
    /\ Displayed /\ ~TabEffectDue /\ ~showTransactionModal
    /\ viewMode' = mode
    /\ UNCHANGED <<page, view, activeTab, detached>>

\* useEffect(() => { if (viewMode === 'customer' && activeTab !== 'customers')
\* setActiveTab('customers') }, [viewMode, activeTab]): it runs after the
\* commit that made its condition true, before the next event.
TabEffect ==
    /\ ~crashed /\ TabEffectDue
    /\ activeTab' = "customers"
    /\ UNCHANGED <<page, view, viewMode, detached>>

\* reader.onloadend of a scan whose view is unmounted.
detachedReadEnds ==
    /\ Displayed /\ detached.reading > 0
    /\ detached' = [reading |-> detached.reading - 1,
                    extracting |-> detached.extracting + 1]
    /\ UNCHANGED <<page, view, activeTab, viewMode>>

\* The extractor's request of such a scan settles: the setState calls of
\* the callback reach no mounted view, an exception reaches nobody.
detachedSettles ==
    /\ Displayed /\ detached.extracting > 0
    /\ detached' = [detached EXCEPT !.extracting = @ - 1]
    /\ UNCHANGED <<page, view, activeTab, viewMode>>

Tabs == {"dashboard", "inventory", "customers"}

ViewModes == {"shopkeeper", "customer"}

SetActiveTabStep == \E tab \in Tabs : setActiveTab(tab)

SetViewModeStep == \E mode \in ViewModes : setViewMode(mode)

\* The user opens the customers tab.
KhataTabStep == setActiveTab("customers")

\* handleSubmit of the inventory view, which is rendered for the shopkeeper
\* on the inventory tab.
InventoryAddProductStep ==
    \E p \in ProductInputs, id \in GenIds :
        /\ "inventory" \in ShownViews(activeTab, viewMode)
        /\ addProduct(p, id)
        /\ UNCHANGED view

\* HomePage showing the khata view to the shopkeeper.
NextUI ==
    \/ KhataTabStep
    \/ LoadEffect
    \/ SaveEffect
    \/ Render
    \/ AddCustomerViewStep
    \/ SelectCustomerStep
    \/ OpenTransactionModalStep
    \/ closeTransactionModal
    \/ ChangeAmountStep
    \/ ChangeDescStep
    \/ TxSubmitStep
    \/ handleScanList
    \/ FileReadEnds
    \/ ExtractionSettles

SpecUI == Init /\ [][NextUI]_vars

\* The same, with what the browser and React do by themselves done in the
\* end: the renders, the effects, the end of a file read and the settling
\* of the extractor's request.
SpecUIFair ==
    /\ SpecUI
    /\ WF_vars(LoadEffect) /\ WF_vars(SaveEffect) /\ WF_vars(Render)
    /\ WF_vars(FileReadEnds) /\ WF_vars(ExtractionSettles)

\* What the user makes of the description when it may also be filled in.
FormDescTexts == {<<>>, <<"Rice">>}

ChangeDescFormStep == \E text \in FormDescTexts : changeDesc(text)

SubmitEventStep == \E id \in FormIds : handleTxSubmitEvent(id)

\* The khata view with its transaction form, every submit event delivered
\* to the handler.
NextForm ==
    \/ KhataTabStep
    \/ LoadEffect
    \/ SaveEffect
    \/ Render
    \/ SelectCustomerStep
    \/ OpenTransactionModalStep
    \/ closeTransactionModal
    \/ ChangeAmountStep
    \/ ChangeDescFormStep
    \/ SubmitEventStep

SpecForm == Init /\ [][NextForm]_vars

\* HomePage with its tabs and its role switch, and the inventory view.
NextNav ==
    \/ LoadEffect
    \/ SaveEffect
    \/ Render
    \/ TabEffect
    \/ SetActiveTabStep
    \/ SetViewModeStep
    \/ InventoryAddProductStep
    \/ Reload

SpecNav == Init /\ [][NextNav]_vars

\* The same, with the renders and the effects done in the end.
SpecNavFair ==
    /\ SpecNav
    /\ WF_vars(LoadEffect) /\ WF_vars(SaveEffect) /\ WF_vars(Render)
    /\ WF_vars(TabEffect)

\* HomePage with its tabs and its role switch, and the khata view with its
\* scan and the submission of its transaction form.
NextModes ==
    \/ LoadEffect
    \/ SaveEffect
    \/ Render
    \/ TabEffect
    \/ SetActiveTabStep
    \/ SetViewModeStep
    \/ SelectCustomerStep
    \/ closeTransactionModal
    \/ TxSubmitStep
    \/ handleScanList
    \/ FileReadEnds
    \/ ExtractionSettles
    \/ detachedReadEnds
    \/ detachedSettles

SpecModes == Init /\ [][NextModes]_vars

----------------------------------------------------------------------------
(* The App component of part_000: the stored text is read by the useState  *)
(* initialiser during the first render, there is no isLoaded gate (the     *)
(* model keeps isLoaded true), and the save effect writes unconditionally. *)

\* useState<KiranaState>(() => { const saved = ...; return saved ?
\* JSON.parse(saved) : INITIAL_STATE; }): [ok |-> FALSE] when JSON.parse throws.
InitialiserApp(saved, t) ==
    IF Truthy(saved) THEN JSONparse(saved)
    ELSE [ok |-> TRUE, value |-> INITIAL_STATE_App(t)]

\* The first render of App. An exception of the initialiser, or of the
\* dashboard reading a state that is no KiranaState, unmounts the tree.
MountApp ==
    /\ ~crashed /\ loadPending
    /\ LET r == InitialiserApp(localStorage, now) IN
         /\ state' = IF r.ok THEN r.value ELSE state
         /\ crashed' = (~r.ok \/ ~IsLedger(r.value))
         /\ rendered' = IF r.ok /\ IsLedger(r.value)
                         THEN [state |-> r.value, isLoaded |-> TRUE]
                         ELSE rendered
    /\ loadPending' = FALSE
    /\ loaded' = state'
    /\ events' = <<>>
    /\ UNCHANGED <<isLoaded, savePending, localStorage, now, opsDone, savedState,
                   view, nav>>

\* useEffect(() => { localStorage.setItem('kirana_data', JSON.stringify(state)) }, [state])
SaveEffectApp ==
    /\ ~crashed /\ ~loadPending /\ savePending
    /\ localStorage' = JSONstringify(rendered.state)
    /\ savedState' = rendered.state
    /\ savePending' = FALSE
    /\ UNCHANGED <<state, isLoaded, rendered, loadPending, crashed, now, opsDone,
                   loaded, events, view, nav>>

ReloadApp ==
    /\ state' = INITIAL_STATE_App(now)
    /\ rendered' = [state |-> INITIAL_STATE_App(now), isLoaded |-> FALSE]
    /\ loadPending' = TRUE
    /\ savePending' = TRUE
    /\ crashed' = FALSE
    /\ loaded' = INITIAL_STATE_App(now)
    /\ events' = <<>>
    /\ UNCHANGED <<isLoaded, localStorage, now, opsDone, savedState, view, nav>>

InitApp ==
    /\ state = INITIAL_STATE_App(0)
    /\ isLoaded = TRUE
    /\ rendered = [state |-> INITIAL_STATE_App(0), isLoaded |-> FALSE]
    /\ loadPending = TRUE
    /\ savePending = TRUE
    /\ crashed = FALSE
    /\ localStorage \in {NoItem, EmptyText, Garbage, ForeignJSON}
    /\ now = 0
    /\ opsDone = 0
    /\ savedState = ForeignValue
    /\ loaded = INITIAL_STATE_App(0)
    /\ events = <<>>
    /\ MountedView
    /\ MountedNav

NextApp ==
    \/ MountApp
    \/ SaveEffectApp
    \/ Render
    \/ AddProductStep
    \/ AddCustomerStep
    \/ RecordTransactionStep(NumericAmounts)
    \/ ReloadApp

SpecApp == InitApp /\ [][NextApp]_vars

----------------------------------------------------------------------------
(* What the claims are stated with: the history of this launch.            *)

Max0(x) == IF x >= 0 THEN x ELSE 0

\* +amount for PURCHASE, -amount for PAYMENT.
SignedAmount(tx) == IF tx.type = "PURCHASE" THEN tx.amount ELSE 0 - tx.amount

LastEvent == events[Len(events)]

\* This step is a call of the operation op: it extends the history by one.
IsCall(op) == Len(events') = Len(events) + 1 /\ events'[Len(events')].op = op

IsRecord(e) == e.op = "recordTransaction"

\* The position in the history at which the customer at index i was added;
\* 0 for a customer the load of this launch produced.
CreatedAt(i) ==
    IF i <= Len(loaded.customers) THEN 0
    ELSE CHOOSE p \in 1..Len(events) :
            /\ events[p].op = "addCustomer"
            /\ Cardinality({q \in 1..p : events[q].op = "addCustomer"})
                  = i - Len(loaded.customers)

\* The balance the customer at index i started this launch with.
StartBalance(i) ==
    IF i <= Len(loaded.customers) THEN loaded.customers[i].outstandingBalance ELSE 0

\* The recordTransaction calls made against the customer at index i, in order.
CallsAgainst(i) ==
    [k \in {p \in 1..Len(events) :
               /\ p > CreatedAt(i)
               /\ events[p].op = "recordTransaction"
               /\ events[p].arg.customerId = state.customers[i].id} |-> events[k].arg]

RECURSIVE SumOfAdjustments(_)
SumOfAdjustments(calls) ==
    IF DOMAIN calls = {} THEN 0
    ELSE LET p == CHOOSE q \in DOMAIN calls : \A r \in DOMAIN calls : r <= q
         IN SumOfAdjustments([k \in DOMAIN calls \ {p} |-> calls[k]])
              + SignedAmount(calls[p])

RECURSIVE ClampedAfterEach(_, _)
ClampedAfterEach(start, calls) ==
    IF DOMAIN calls = {} THEN start
    ELSE LET p == CHOOSE q \in DOMAIN calls : \A r \in DOMAIN calls : r <= q
         IN Max0(ClampedAfterEach(start, [k \in DOMAIN calls \ {p} |-> calls[k]])
                   + SignedAmount(calls[p]))

----------------------------------------------------------------------------
(* The claims.                                                             *)

\* C1 as stated: after every sequence of recordTransaction calls against a
\* customer, the balance is max(0, start + sum of all adjustments so far).
C1_BalanceIsClampedSum ==
    IsLedger(state) =>
        \A i \in DOMAIN state.customers :
            state.customers[i].outstandingBalance
                = Max0(StartBalance(i) + SumOfAdjustments(CallsAgainst(i)))

\* C1 (amended): the balance is the result of clamping at zero after each
\* call, b := max(0, b + adjustment), starting from the customer's balance
\* before the calls.
C1_BalanceIsClampedAfterEachCall ==
    IsLedger(state) =>
        \A i \in DOMAIN state.customers :
            state.customers[i].outstandingBalance
                = ClampedAfterEach(StartBalance(i), CallsAgainst(i))

\* Two calls against one customer, the first of them absorbed by the clamp,
\* so that the balance differs from the clamped sum.
C1_Witness ==
    /\ IsLedger(state)
    /\ \E i \in DOMAIN state.customers :
          /\ Cardinality(DOMAIN CallsAgainst(i)) = 2
          /\ \E p \in DOMAIN CallsAgainst(i) :
                /\ \A q \in DOMAIN CallsAgainst(i) : p <= q
                /\ StartBalance(i) + SignedAmount(CallsAgainst(i)[p]) < 0
          /\ state.customers[i].outstandingBalance
                > Max0(StartBalance(i) + SumOfAdjustments(CallsAgainst(i)))

\* C2: one recordTransaction on an existing customer with balance b sets the
\* balance to max(0, b + amount) for PURCHASE and max(0, b - amount) for
\* PAYMENT.
C2_SingleCallClamps ==
    [][IsCall("recordTransaction") =>
        \A i \in DOMAIN state.customers :
            state.customers[i].id = events'[Len(events')].arg.customerId =>
                state'.customers[i].outstandingBalance
                    = Max0(state.customers[i].outstandingBalance
                             + SignedAmount(events'[Len(events')].arg))]_vars

\* A PAYMENT of 500 against the balance 450 has left 0, and a further
\* PAYMENT of 500 has left it at 0.
C2_Witness ==
    /\ IsLedger(state)
    /\ Len(events) = 2
    /\ \A k \in 1..2 :
          /\ events[k].op = "recordTransaction"
          /\ events[k].arg.customerId = "c3"
          /\ events[k].arg.type = "PAYMENT"
          /\ events[k].arg.amount = 500
    /\ StartBalance(3) = 450
    /\ state.customers[3].outstandingBalance = 0

\* C3: every customer's outstandingBalance is >= 0 in every state reached
\* from the seed state by addProduct, addCustomer and recordTransaction with
\* positive, zero and negative amounts.
C3_BalanceNonNegative ==
    IsLedger(state) =>
        \A i \in DOMAIN state.customers : state.customers[i].outstandingBalance >= 0

\* A PURCHASE with a negative amount was recorded against a customer whose
\* balance was 0.
C3_Witness ==
    /\ IsLedger(state)
    /\ Len(events) = 2
    /\ events[1].op = "addCustomer"
    /\ events[2].op = "recordTransaction"
    /\ events[2].arg.customerId = events[1].id
    /\ events[2].arg.type = "PURCHASE"
    /\ events[2].arg.amount < 0
    /\ state.customers[Len(state.customers)].outstandingBalance = 0

\* The recordTransaction calls of this launch, in the order they were made.
RecordCalls == SelectSeq(events, IsRecord)

\* C4: the transactions list holds the recorded transactions most recent
\* first: the calls of this launch in reverse order, each with the
\* customerId, type, amount and description given, followed by the
\* transactions that were there before, in their order.
C4_MostRecentFirst ==
    IsLedger(state) =>
        /\ Len(state.transactions) = Len(RecordCalls) + Len(loaded.transactions)
        /\ \A k \in 1..Len(RecordCalls) :
              LET e == RecordCalls[Len(RecordCalls) + 1 - k]
                  t == state.transactions[k]
              IN /\ t.customerId = e.arg.customerId
                 /\ t.type = e.arg.type
                 /\ t.amount = e.arg.amount
                 /\ t.description = e.arg.description
                 /\ t.id = e.id
                 /\ t.timestamp = e.at
        /\ \A k \in 1..Len(loaded.transactions) :
              state.transactions[Len(RecordCalls) + k] = loaded.transactions[k]

\* Two different transactions were recorded, and the second one is first.
C4_Witness ==
    /\ IsLedger(state)
    /\ Len(RecordCalls) = 2
    /\ RecordCalls[1].arg # RecordCalls[2].arg
    /\ state.transactions[1].amount = RecordCalls[2].arg.amount
    /\ state.transactions[1].customerId = RecordCalls[2].arg.customerId

\* No customer of the list has the id.
UnknownCustomer(id) == \A i \in DOMAIN state.customers : state.customers[i].id # id

\* C5: recordTransaction with a customerId that matches no customer still
\* prepends the new transaction and leaves the customer list as it was.
C5_UnknownCustomerStillRecorded ==
    [][(IsCall("recordTransaction")
          /\ UnknownCustomer(events'[Len(events')].arg.customerId)) =>
        /\ state'.customers = state.customers
        /\ Len(state'.transactions) = Len(state.transactions) + 1
        /\ state'.transactions[1].customerId = events'[Len(events')].arg.customerId
        /\ state'.transactions[1].amount = events'[Len(events')].arg.amount
        /\ state'.transactions[1].type = events'[Len(events')].arg.type
        /\ \A k \in DOMAIN state.transactions :
              state'.transactions[k + 1] = state.transactions[k]]_vars

\* A transaction was recorded against an id no customer has, some time
\* after the seed was created.
C5_Witness ==
    /\ IsLedger(state)
    /\ Len(events) >= 1
    /\ LastEvent.op = "recordTransaction"
    /\ UnknownCustomer(LastEvent.arg.customerId)
    /\ state.transactions[1].customerId = LastEvent.arg.customerId
    /\ \E i \in DOMAIN state.customers : state.customers[i].lastUpdated < now

\* C6 as stated: addProduct adds exactly one entry, with the given name,
\* price and category, and its id differs from the id of every product
\* already in the list.
C6_AddProductFreshId ==
    [][IsCall("addProduct") =>
        /\ Len(state'.products) = Len(state.products) + 1
        /\ \A k \in DOMAIN state.products : state'.products[k] = state.products[k]
        /\ state'.products[Len(state'.products)].name = events'[Len(events')].arg.name
        /\ state'.products[Len(state'.products)].price = events'[Len(events')].arg.price
        /\ state'.products[Len(state'.products)].category
              = events'[Len(events')].arg.category
        /\ \A k \in DOMAIN state.products :
              state.products[k].id # state'.products[Len(state'.products)].id]_vars

\* C7: addCustomer adds exactly one customer, with the given name and phone,
\* outstandingBalance 0, lastUpdated the current time and a generated id,
\* whatever the names and phones already in the list; nothing else changes.
C7_AddCustomer ==
    [][IsCall("addCustomer") =>
        /\ state'.customers
              = Append(state.customers,
                       [id |-> events'[Len(events')].id,
                        name |-> events'[Len(events')].arg.name,
                        phone |-> events'[Len(events')].arg.phone,
                        outstandingBalance |-> 0,
                        lastUpdated |-> now'])
        /\ events'[Len(events')].id \in GenIds
        /\ state'.products = state.products
        /\ state'.transactions = state.transactions]_vars

\* The same name and phone were added twice and the list has two customers
\* for them, both with balance 0.
C7_Witness ==
    /\ IsLedger(state)
    /\ Len(events) = 2
    /\ events[1].op = "addCustomer" /\ events[2].op = "addCustomer"
    /\ events[1].arg = events[2].arg
    /\ Len(state.customers) = Len(loaded.customers) + 2
    /\ \A i \in {Len(state.customers) - 1, Len(state.customers)} :
          /\ state.customers[i].name = events[1].arg.name
          /\ state.customers[i].phone = events[1].arg.phone
          /\ state.customers[i].outstandingBalance = 0
    /\ state.customers[Len(state.customers)].lastUpdated = now
    /\ state.customers[Len(state.customers) - 1].lastUpdated < now

\* A well-formed ledger state (section 3 of the specification): names are
\* not empty, prices and balances are numbers >= 0, amounts are numbers > 0,
\* types are PURCHASE or PAYMENT.
WellFormed(s) ==
    /\ IsLedger(s)
    /\ \A i \in DOMAIN s.products :
          s.products[i].name # "" /\ s.products[i].price >= 0
    /\ \A i \in DOMAIN s.customers :
          s.customers[i].name # "" /\ s.customers[i].outstandingBalance >= 0
    /\ \A i \in DOMAIN s.transactions :
          /\ s.transactions[i].amount > 0
          /\ s.transactions[i].type \in TransactionTypes

\* This step is the load of a launch.
IsLoad == loadPending /\ ~loadPending'

\* C8: a well-formed state that was saved to the store is what the next
\* load puts in memory: same products, customers and transactions, in the
\* same order.
C8_RoundTrip ==
    [][(IsLoad /\ localStorage.kind = "ledger" /\ WellFormed(savedState)) =>
        state' = savedState]_vars

\* A launch has just loaded a saved state that holds an added customer and
\* a recorded transaction.
C8_Witness ==
    /\ ~loadPending /\ isLoaded /\ ~rendered.isLoaded
    /\ localStorage.kind = "ledger"
    /\ WellFormed(savedState)
    /\ state = savedState
    /\ Len(state.transactions) = 1
    /\ Len(state.customers) = 4
    /\ state.customers[4].outstandingBalance = 500

\* C9 as stated: a load that finds no stored text, or a text that is not
\* the serialisation of a ledger state, leaves the seed state in memory and
\* does not throw.
C9_LoadFallsBackToSeed ==
    [][(IsLoad /\ localStorage.kind \in {"none", "empty", "garbage", "foreign"}) =>
        (~crashed' /\ state' = INITIAL_STATE_App(now))]_vars

\* No render and no save effect is pending.
NoSavePending ==
    /\ ~loadPending
    /\ rendered = [state |-> state, isLoaded |-> isLoaded]
    /\ ~savePending

\* C10: after the load, whenever no save is pending the stored text is the
\* serialisation of the whole in-memory state.
C10_StoreFollowsState ==
    (isLoaded /\ ~crashed /\ NoSavePending) => localStorage = JSONstringify(state)

\* Two operations have been invoked and saved since the load.
C10_Witness ==
    /\ isLoaded /\ ~crashed /\ NoSavePending
    /\ Len(events) = 2
    /\ state # loaded
    /\ savedState = state
    /\ localStorage = JSONstringify(state)

----------------------------------------------------------------------------
(* The receipt scan and the transaction form.                              *)

\* The ways the extractor's request fails: the call is rejected, or the
\* text of the response is no JSON.
ExtractorFailures == {"rejected", "badJSON"}

\* C11 as stated: whenever the request fails or its response does not parse,
\* extractItemsFromImage returns the empty list and throws nothing past its
\* boundary: no scan callback is left rejected by such a failure.
C11_ExtractorReturnsEmptyOnFailure ==
    ~(scan.phase = "rejected" /\ scan.response \in ExtractorFailures)

\* C12 as stated: every scan that was started resumes: isScanning returns
\* to false.
C12_ScanResumes == isScanning ~> ~isScanning

\* C13 as stated: when the extraction of a scan has failed, the user has
\* been shown the scanning-failed notice.
C13_FailureShowsNotice == scan.phase = "rejected" => alerts > 0

\* This step is the scan callback going on after its await.
IsResume == scan.phase = "extracting" /\ scan'.phase = "idle"

\* This step closes the transaction modal and leaves the form as it is.
IsClose == showTransactionModal /\ ~showTransactionModal' /\ txData' = txData

\* This step submits the form of the transaction modal.
IsSubmit ==
    /\ showTransactionModal /\ ~showTransactionModal'
    /\ txData # BlankTxData /\ txData' = BlankTxData

\* C14: a scan records nothing by itself. A step of the scan leaves the
\* ledger state alone, and its completion fills the draft, clears
\* isScanning and opens the modal; recordTransaction is invoked by a
\* submission of the form only; closing the modal leaves the ledger alone.
C14_ScanOnlyDrafts ==
    [][ /\ (scan' # scan => (state' = state /\ events' = events))
        /\ (IsResume =>
              (showTransactionModal' /\ ~isScanning' /\ txData'.type = "PURCHASE"))
        /\ (IsCall("recordTransaction") => IsSubmit)
        /\ (IsClose => (state' = state /\ events' = events)) ]_vars

\* A scan has completed with items: the draft is in the open form and the
\* ledger holds no transaction.
C14_Witness ==
    /\ IsLedger(state) /\ Displayed
    /\ showTransactionModal /\ ~isScanning /\ scan = NoScan
    /\ txData.type = "PURCHASE" /\ txData.amount = NumberToString(500)
    /\ Len(txData.desc) > 1
    /\ Len(state.transactions) = 0 /\ Len(events) = 0

\* C15: every transaction of the ledger names a customer of the list (no
\* customer is ever removed, so the customer it named when it was recorded).
C15_TransactionNamesCustomer ==
    IsLedger(state) =>
        \A i \in DOMAIN state.transactions :
            \E j \in DOMAIN state.customers :
                state.customers[j].id = state.transactions[i].customerId

\* A transaction was recorded for a customer who was added in this launch.
C15_Witness ==
    /\ IsLedger(state)
    /\ Len(events) = 2
    /\ events[1].op = "addCustomer" /\ events[2].op = "recordTransaction"
    /\ events[2].arg.customerId = events[1].id
    /\ state.transactions[1].customerId = state.customers[Len(state.customers)].id

----------------------------------------------------------------------------
(* What the operations leave alone.                                        *)

\* This step happens within a launch: it is no reload and no load, the two
\* steps that replace the whole state by the seed or by the stored one.
WithinLaunch ==
    ~loadPending /\ ~loadPending' /\ IsLedger(state) /\ IsLedger(state')

\* C16: a transaction is never changed or deleted: recordTransaction makes
\* the list one longer and keeps the old list as its tail; addProduct,
\* addCustomer and every other step of a launch leave the list as it is.
C16_TransactionsOnlyGrow ==
    [][WithinLaunch =>
        IF IsCall("recordTransaction")
        THEN /\ Len(state'.transactions) = Len(state.transactions) + 1
             /\ Tail(state'.transactions) = state.transactions
        ELSE state'.transactions = state.transactions]_vars

\* Two transactions and then nothing else were recorded: both are in the list.
C16_Witness ==
    /\ IsLedger(state)
    /\ Len(events) = 2
    /\ IsRecord(events[1]) /\ IsRecord(events[2])
    /\ Len(state.transactions) = Len(loaded.transactions) + 2
    /\ state.transactions[2].timestamp < state.transactions[1].timestamp

\* C17: the id, name and phone of a customer never change; the balance and
\* lastUpdated change in a recordTransaction step only; addProduct and
\* addCustomer leave every existing customer as it is.
C17_CustomerFrame ==
    [][WithinLaunch =>
        /\ Len(state'.customers) >= Len(state.customers)
        /\ \A i \in DOMAIN state.customers :
              /\ state'.customers[i].id = state.customers[i].id
              /\ state'.customers[i].name = state.customers[i].name
              /\ state'.customers[i].phone = state.customers[i].phone
              /\ (~IsCall("recordTransaction") =>
                    state'.customers[i] = state.customers[i])]_vars

\* A customer was added and a purchase recorded for the seed customer c3:
\* c3 has the new balance and its old name, the others are as loaded.
C17_Witness ==
    /\ IsLedger(state)
    /\ Len(events) = 2
    /\ events[1].op = "addCustomer" /\ IsRecord(events[2])
    /\ events[2].arg.customerId = "c3" /\ events[1].id # "c3"
    /\ state.customers[3].outstandingBalance = 950
    /\ state.customers[3].lastUpdated = now
    /\ state.customers[3].name = loaded.customers[3].name
    /\ state.customers[1] = loaded.customers[1]
    /\ Len(state.customers) = 4

\* C18: a product is never changed or removed: addProduct puts the new
\* product after the existing ones, which keep their order; addCustomer,
\* recordTransaction and every other step of a launch leave the list as it is.
C18_ProductFrame ==
    [][WithinLaunch =>
        IF IsCall("addProduct")
        THEN /\ Len(state'.products) = Len(state.products) + 1
             /\ SubSeq(state'.products, 1, Len(state.products)) = state.products
        ELSE state'.products = state.products]_vars

\* A product was added and then a transaction recorded: the list is the
\* loaded one followed by the new product.
C18_Witness ==
    /\ IsLedger(state)
    /\ Len(events) = 2
    /\ events[1].op = "addProduct" /\ IsRecord(events[2])
    /\ Len(state.products) = Len(loaded.products) + 1
    /\ SubSeq(state.products, 1, Len(loaded.products)) = loaded.products
    /\ state.products[Len(state.products)].name = events[1].arg.name

\* The state after the first k calls of this launch, every call done whole.
RECURSIVE StateAfter(_)
StateAfter(k) == IF k = 0 THEN loaded ELSE ApplyCall(StateAfter(k - 1), events[k])

WholeCallStates == {StateAfter(k) : k \in 0..Len(events)}

\* C19: recordTransaction is atomic. Every state the views have rendered
\* and every state the save effect has written is the state after a whole
\* number of calls: none holds a transaction without the balance and
\* lastUpdated it brings, or the other way round.
C19_RecordIsAtomic ==
    /\ rendered.isLoaded => rendered.state \in WholeCallStates
    /\ (~loadPending /\ IsLedger(savedState)) => savedState \in WholeCallStates

\* A payment of customer c3 is on screen and in the store, with the balance
\* and the timestamp it brought.
C19_Witness ==
    /\ Displayed
    /\ Len(events) = 1 /\ IsRecord(events[1])
    /\ events[1].arg.customerId = "c3" /\ events[1].arg.type = "PAYMENT"
    /\ events[1].arg.amount = 500
    /\ rendered.state.transactions[1].timestamp = now
    /\ rendered.state.customers[3].lastUpdated = now
    /\ rendered.state.customers[3].outstandingBalance = 0
    /\ savedState = rendered.state

----------------------------------------------------------------------------
(* The amounts the transaction form records.                               *)

\* C20 as stated: every transaction of the ledger has a positive amount,
\* whatever the user does with the transaction form and the scan.
C20_AmountsPositive ==
    IsLedger(state) =>
        \A i \in DOMAIN state.transactions : state.transactions[i].amount > 0

----------------------------------------------------------------------------
(* The ids of the three collections.                                       *)

IdsDistinct(list) ==
    \A i, j \in DOMAIN list : i # j => list[i].id # list[j].id

\* C21 as stated: in every state reached from the seed, no two customers
\* share an id, no two products share an id and no two transactions share
\* an id.
C21_IdsUnique ==
    IsLedger(state) =>
        /\ IdsDistinct(state.customers)
        /\ IdsDistinct(state.products)
        /\ IdsDistinct(state.transactions)

----------------------------------------------------------------------------
(* The draft a scan suggests.                                              *)

NamesOf(items) == [k \in DOMAIN items |-> items[k].name]

RECURSIVE SumOfPrices(_)
SumOfPrices(items) ==
    IF Len(items) = 0 THEN 0 ELSE Head(items).price + SumOfPrices(Tail(items))

ItemNames == UNION {{l[k].name : k \in DOMAIN l} : l \in ScannedLists}

\* The item names a description holds, in the order it holds them.
NamesIn(desc) == SelectSeq(desc, LAMBDA piece : piece \in ItemNames)

\* C22: when the extraction returns a list of items, the draft the scan
\* puts in the form has type PURCHASE, an amount that reads as the sum of
\* the items' prices, and a description that joins the items' names in the
\* order they were returned.
C22_DraftFromItems ==
    [][ \A response \in Responses :
          (resumeScan(response) /\ ~extractItemsFromImage(response).threw) =>
              LET items == extractItemsFromImage(response).items IN
                /\ txData'.type = "PURCHASE"
                /\ parseFloat(txData'.amount) = SumOfPrices(items)
                /\ NamesIn(txData'.desc) = NamesOf(items) ]_vars

\* The draft of a scan that returned rice for 300 and dal for 200.
C22_Witness ==
    /\ KhataShown /\ showTransactionModal /\ scan = NoScan
    /\ txData.type = "PURCHASE"
    /\ parseFloat(txData.amount) = 500
    /\ NamesIn(txData.desc) = <<"Rice", "Dal">>
    /\ Len(txData.desc) = 1 + 2 * (3 + 3) + 1

----------------------------------------------------------------------------
(* Calls issued back to back.                                              *)

\* C23: no call is lost. Whatever calls have been issued since the load,
\* rendered or not, the state is the state the load produced with the calls
\* applied one by one in the order they were issued.
C23_CallsAppliedSerially ==
    (~loadPending /\ IsLedger(loaded)) => state = StateAfter(Len(events))

\* Two payments issued before any render of the first: both are in the
\* state, the later one first, and the screen still shows the loaded state.
C23_Witness ==
    /\ ~loadPending /\ rendered.isLoaded /\ rendered.state = loaded
    /\ Len(events) = 2 /\ IsRecord(events[1]) /\ IsRecord(events[2])
    /\ events[1].id # events[2].id
    /\ Len(state.transactions) = Len(loaded.transactions) + 2
    /\ state.transactions[1].id = events[2].id
    /\ state.transactions[2].id = events[1].id

----------------------------------------------------------------------------
(* The launch and the stored snapshot.                                     *)

\* This step is a run of the save effect.
IsSave == ~loadPending /\ savePending /\ ~savePending'

\* C24: a launch never writes the seed over a stored snapshot. Nothing is
\* written while isLoaded is false, in the hook or in the render whose
\* save effect runs; and when the load parsed a stored ledger, the first
\* save after it writes that ledger.
C24_SeedNeverOverwritesSnapshot ==
    [][ /\ ((~isLoaded \/ ~rendered.isLoaded) => localStorage' = localStorage)
        /\ (IsSave /\ rendered.isLoaded /\ Len(events) = 0
              /\ localStorage.kind = "ledger") =>
              /\ loaded = JSONparse(localStorage).value
              /\ localStorage' = JSONstringify(loaded) ]_vars

\* A relaunch has loaded a snapshot that holds a recorded transaction and
\* its first save has run: the store holds the snapshot, which is not the
\* seed of this launch.
C24_Witness ==
    /\ ~crashed /\ ~loadPending /\ rendered.isLoaded /\ ~savePending
    /\ Len(events) = 0 /\ opsDone >= 1
    /\ IsLedger(loaded) /\ Len(loaded.transactions) >= 1
    /\ rendered.state = loaded
    /\ localStorage = JSONstringify(loaded)
    /\ loaded # INITIAL_STATE(now)

----------------------------------------------------------------------------
(* The customers a transaction leaves alone.                               *)

\* C25: recordTransaction changes no customer but the one whose id is the
\* customerId it is given. The list keeps its length and its order, and
\* every customer with another id is the record it was.
C25_OtherCustomersKept ==
    [][IsCall("recordTransaction") =>
        /\ Len(state'.customers) = Len(state.customers)
        /\ \A i \in DOMAIN state.customers :
              /\ state'.customers[i].id = state.customers[i].id
              /\ (state.customers[i].id # LastEvent'.arg.customerId =>
                    /\ state'.customers[i].outstandingBalance
                          = state.customers[i].outstandingBalance
                    /\ state'.customers[i].lastUpdated
                          = state.customers[i].lastUpdated
                    /\ state'.customers[i] = state.customers[i])]_vars

\* A purchase was recorded for an added customer, the fourth of the list:
\* the three seed customers are as loaded, in their places.
C25_Witness ==
    /\ IsLedger(state)
    /\ Len(events) = 2
    /\ events[1].op = "addCustomer" /\ IsRecord(events[2])
    /\ events[2].arg.customerId = events[1].id
    /\ events[2].arg.type = "PURCHASE" /\ events[2].arg.amount = 500
    /\ Len(state.customers) = 4
    /\ SubSeq(state.customers, 1, 3) = loaded.customers
    /\ state.customers[4].id = events[1].id
    /\ state.customers[4].outstandingBalance = 500
    /\ state.customers[4].lastUpdated = now

----------------------------------------------------------------------------
(* The role switch and the tabs.                                           *)

\* C26: while the view mode is customer, neither the dashboard nor the
\* inventory view is displayed, whatever tab is selected; and whenever a
\* tab other than customers is active in that mode, the active tab becomes
\* customers again (unless the page is reloaded, which ends the mode).
C26_CustomerModeShowsKhataOnly ==
    /\ [](viewMode = "customer" =>
            ShownViews(activeTab, viewMode) \cap {"dashboard", "inventory"} = {})
    /\ ((viewMode = "customer" /\ activeTab # "customers")
            ~> (activeTab = "customers" \/ viewMode # "customer"))

\* The inventory tab was chosen in customer mode: no view is displayed
\* until the tab effect has run.
C26_Witness ==
    /\ Displayed
    /\ viewMode = "customer" /\ activeTab = "inventory"
    /\ ShownViews(activeTab, viewMode) = {}

\* C27 as stated: while the view mode is customer, the customers view
\* invokes neither addCustomer nor recordTransaction, also when a scan that
\* was started in shopkeeper mode completes after the switch.
C27_CustomerModeRecordsNothing ==
    [][(IsCall("addCustomer") \/ IsCall("recordTransaction")) =>
          viewMode = "shopkeeper"]_vars

----------------------------------------------------------------------------
(* Scans in flight.                                                        *)

\* The extraction calls that have been made and have not settled: the one
\* of the mounted view and those of views that have been unmounted.
OutstandingExtractions ==
    (IF scan.phase = "extracting" THEN 1 ELSE 0) + detached.extracting

\* C28 as stated: at most one extraction call is outstanding at any time.
C28_OneExtractionOutstanding == OutstandingExtractions <= 1

\* This step starts a scan.
IsScanStart == scan' # scan /\ scan'.phase = "reading"

\* C28, amended: the mounted view starts no scan while its isScanning is
\* true, and isScanning is true as long as its scan is in flight; so each
\* mounted view has at most one extraction outstanding.
C28_NoScanWhileScanning ==
    [][ /\ (IsScanStart => (~isScanning /\ scan.phase = "idle"))
        /\ (scan'.phase # "idle" => isScanning') ]_vars

\* The view is scanning while the extraction of a view that was unmounted
\* has not settled.
C28_Witness ==
    /\ KhataShown /\ isScanning /\ scan.phase = "extracting"
    /\ detached.extracting = 1

----------------------------------------------------------------------------
(* The submission of the transaction form.                                 *)

DefaultDescription(type) ==
    IF type = "PURCHASE" THEN <<"New Purchase">> ELSE <<"Payment Received">>

\* C29: a submit of the transaction form records only when a customer is
\* selected and the amount field is not empty; otherwise it changes nothing.
\* When it records, the transaction is for the selected customer, an empty
\* description becomes 'New Purchase' or 'Payment Received' by the type,
\* and the draft becomes the empty PURCHASE draft (the modal closes).
C29_SubmitGuard ==
    [][ /\ (IsCall("recordTransaction") =>
              (selectedCustomerId # NoCustomer /\ txData.amount # <<>>))
        /\ \A id \in FormIds : handleTxSubmitEvent(id) =>
              IF selectedCustomerId # NoCustomer /\ txData.amount # <<>>
              THEN /\ IsCall("recordTransaction")
                   /\ LastEvent'.arg.customerId = selectedCustomerId
                   /\ LastEvent'.arg.type = txData.type
                   /\ LastEvent'.arg.description =
                        (IF txData.desc = <<>> THEN DefaultDescription(txData.type)
                         ELSE txData.desc)
                   /\ txData' = [type |-> "PURCHASE", amount |-> <<>>, desc |-> <<>>]
                   /\ ~showTransactionModal'
              ELSE /\ events' = events /\ state' = state
                   /\ txData' = txData
                   /\ showTransactionModal' = showTransactionModal ]_vars

\* A payment of 500 was submitted with no description and recorded as
\* 'Payment Received'; the draft is empty again and the modal is closed.
C29_Witness ==
    /\ IsLedger(state) /\ Len(events) = 1 /\ IsRecord(events[1])
    /\ events[1].arg.type = "PAYMENT"
    /\ events[1].arg.description = <<"Payment Received">>
    /\ events[1].arg.customerId = selectedCustomerId
    /\ state.transactions[1].description = <<"Payment Received">>
    /\ txData = BlankTxData /\ ~showTransactionModal

====
